---------------------------- MODULE Spec2Model ----------------------------
(***************************************************************************)
(* Markov-chain music composer: the layout assembler (create_score /       *)
(* visualize_multi_voice_melody), the Markov trainer (train) and the axis  *)
(* sequence generator (_generate_sequence).                                *)
(*                                                                         *)
(* Durations and measure lengths are quarterLength values counted in ticks *)
(* of 0.25 quarter note (the finest quantization grid), so 4.0 is 16.      *)
(* A pitch is <<step name, octave>>, the two parts of music21's            *)
(* nameWithOctave; the rest 'R' is <<"R", 0>>.  A time signature 'n/d' is  *)
(* <<n, d>>.  An instrument label 'name #i' is <<name, i>>, and <<name, 0>>*)
(* is the label without a doubling suffix.                                 *)
(***************************************************************************)
EXTENDS Integers, Sequences, FiniteSets, TLC

\* ------------------------------------------------------------------------
\* Bounds of the model
\* ------------------------------------------------------------------------
\* Events of one melody handed to the assembler.
MaxEvents == 4
\* Events of one melody when an ensemble of NumVoices voices is assembled.
MaxEnsembleEvents == 2
\* Voices of an ensemble.
NumVoices == 2
\* Highest measure number that may carry a time signature change.
MaxChangeMeasure == 2

\* ------------------------------------------------------------------------
\* Program constants
\* ------------------------------------------------------------------------
\* Ticks per quarter note: the finest grid of QUANTIZATION_OPTIONS is 0.25.
TicksPerQuarter == 4

TIME_SIGNATURES ==
  { <<4, 4>>, <<3, 4>>, <<2, 4>>, <<3, 8>>, <<6, 8>>, <<12, 8>> }

R == <<"R", 0>>

\* Semitones of a step name above C (music21 pitch.Pitch(name).midi).
StepSemitones ==
  [ s \in {"C", "Db", "D", "Eb", "E", "F", "Gb", "G", "Ab", "A", "Bb", "B"} |->
      CASE s = "C" -> 0 [] s = "Db" -> 1 [] s = "D" -> 2 [] s = "Eb" -> 3
        [] s = "E" -> 4 [] s = "F" -> 5 [] s = "Gb" -> 6 [] s = "G" -> 7
        [] s = "Ab" -> 8 [] s = "A" -> 9 [] s = "Bb" -> 10 [] s = "B" -> 11 ]

\* p.midi of a pitch <<step, octave>>: C4 is 60.
Midi(p) == 12 * (p[2] + 1) + StepSemitones[p[1]]

INSTRUMENT_RANGES ==
  [ i \in {"Flute", "Oboe", "Clarinet", "Bassoon", "Horn", "Trumpet",
           "Trombone", "Tuba", "Violin I", "Violin II", "Viola",
           "Violoncello", "Double Bass", "Piano"} |->
      CASE i = "Flute" -> << <<"C", 4>>, <<"C", 7>> >>
        [] i = "Oboe" -> << <<"Bb", 3>>, <<"A", 6>> >>
        [] i = "Clarinet" -> << <<"D", 3>>, <<"Bb", 6>> >>
        [] i = "Bassoon" -> << <<"Bb", 1>>, <<"Eb", 5>> >>
        [] i = "Horn" -> << <<"F", 2>>, <<"B", 5>> >>
        [] i = "Trumpet" -> << <<"Gb", 3>>, <<"Gb", 6>> >>
        [] i = "Trombone" -> << <<"E", 2>>, <<"Bb", 5>> >>
        [] i = "Tuba" -> << <<"D", 1>>, <<"F", 4>> >>
        [] i = "Violin I" -> << <<"G", 3>>, <<"A", 7>> >>
        [] i = "Violin II" -> << <<"G", 3>>, <<"A", 7>> >>
        [] i = "Viola" -> << <<"C", 3>>, <<"E", 6>> >>
        [] i = "Violoncello" -> << <<"C", 2>>, <<"C", 6>> >>
        [] i = "Double Bass" -> << <<"E", 1>>, <<"G", 4>> >>
        [] i = "Piano" -> << <<"A", 0>>, <<"C", 8>> >> ]

\* ------------------------------------------------------------------------
\* Pure helpers
\* ------------------------------------------------------------------------
\* An if in place of the while: one octave at most.
OctaveUpOnce(p, min_p) ==
  IF Midi(p) < Midi(min_p) THEN <<p[1], p[2] + 1>> ELSE p

RECURSIVE OctaveUp(_, _)
\* while p.midi < min_p.midi: p.octave += 1
OctaveUp(p, min_p) ==
  IF Midi(p) < Midi(min_p) THEN OctaveUp(<<p[1], p[2] + 1>>, min_p) ELSE p

\* The pitch is set to the upper bound in place of being lowered by octaves.
OctaveDownToBound(p, max_p) ==
  IF Midi(p) > Midi(max_p) THEN max_p ELSE p

RECURSIVE OctaveDown(_, _)
\* while p.midi > max_p.midi: p.octave -= 1
OctaveDown(p, max_p) ==
  IF Midi(p) > Midi(max_p) THEN OctaveDown(<<p[1], p[2] - 1>>, max_p) ELSE p

adjust_pitch_to_range(note_pitch, instrument) ==
  IF note_pitch = R THEN note_pitch
  ELSE LET base_instrument == instrument[1]
           range == IF base_instrument \in DOMAIN INSTRUMENT_RANGES
                      THEN INSTRUMENT_RANGES[base_instrument]
                      ELSE INSTRUMENT_RANGES["Violin I"]
       IN OctaveDown(OctaveUp(note_pitch, range[1]), range[2])

\* numerator * (4.0 / denominator) quarter notes, in ticks.
get_time_signature_value(time_sig) ==
  (time_sig[1] * 4 * TicksPerQuarter) \div time_sig[2]

\* The bucket limits compared with <= in place of <.
map_velocity_to_dynamic_inclusive(velocity) ==
  IF velocity <= 16 THEN "ppp"
  ELSE IF velocity <= 32 THEN "pp"
  ELSE IF velocity <= 48 THEN "p"
  ELSE IF velocity <= 64 THEN "mp"
  ELSE IF velocity <= 80 THEN "mf"
  ELSE IF velocity <= 96 THEN "f"
  ELSE IF velocity <= 112 THEN "ff"
  ELSE "fff"

map_velocity_to_dynamic(velocity) ==
  IF velocity < 16 THEN "ppp"
  ELSE IF velocity < 32 THEN "pp"
  ELSE IF velocity < 48 THEN "p"
  ELSE IF velocity < 64 THEN "mp"
  ELSE IF velocity < 80 THEN "mf"
  ELSE IF velocity < 96 THEN "f"
  ELSE IF velocity < 112 THEN "ff"
  ELSE "fff"

RECURSIVE SumSeq(_)
SumSeq(s) == IF s = <<>> THEN 0 ELSE Head(s) + SumSeq(Tail(s))


\* ------------------------------------------------------------------------
\* Inputs of the layout assembler
\* ------------------------------------------------------------------------
\* Event durations, in ticks: 1.0 and 4.0 quarter notes.
Durations == {4, 16}

Pitches == {R, <<"C", 2>>}

Velocities == {64, 80}

\* (pitch, duration, dynamic, articulation, velocity) tuples as
\* generate_all_sequences builds them; a rest carries the loader's velocity.
NoteData ==
  { <<p, d, map_velocity_to_dynamic(v), "normal", v>> :
      p \in Pitches, d \in Durations, v \in Velocities } \
  { nd \in { <<R, d, map_velocity_to_dynamic(v), "normal", v>> :
               d \in Durations, v \in Velocities } : nd[5] # 64 }

\* The instrument labels of the voices, in score order: 'Violin I' and the
\* doublings 'Double Bass #2', 'Double Bass #3', ...
Instruments ==
  [ v \in 1..NumVoices |->
      IF v = 1 THEN <<"Violin I", 0>> ELSE <<"Double Bass", v>> ]

\* time_sig_changes dictionaries: empty (time_sig_sequence is None), or
\* measure 1 mapped to the base signature and at most one later measure
\* mapped to another signature, as generate_time_signature_sequence
\* returns them.
Schedules(base) ==
  { <<>>, (1 :> base) } \cup
  { (1 :> base) @@ (m :> ts) :
      m \in 2..MaxChangeMeasure, ts \in TIME_SIGNATURES \ {base} }

\* ------------------------------------------------------------------------
\* State
\* ------------------------------------------------------------------------
VARIABLES
  time_signature,    \* create_score argument: the base time signature
  time_sig_changes,  \* dict measure number -> time signature
  instruments,       \* the instrument labels zipped with the melodies
  melodies,          \* per voice, the events consumed so far by the loop
  voice,             \* index of the voice being assembled (outer loop)
  score,             \* parts appended to the score, each a sequence of measures
  part,              \* measures appended to the part of the current voice
  current_measure,   \* the open measure
  current_ts,
  measure_length,
  measure_duration,
  current_dynamic,
  measure_count,
  \* MarkovChainMelodyGenerator: the trainer and the generator
  training_data,          \* the quantized corpus the model is built for
  states,                 \* self.states
  order,                  \* self.order
  initial_probabilities,  \* self.initial_probabilities
  transition_matrix,      \* self.transition_matrix
  pitch_matrix,           \* self.pitch_matrix
  duration_matrix,        \* self.duration_matrix
  velocity_matrix,        \* self.velocity_matrix
  generated_sequences,    \* self.generated_sequences
  train_status,           \* how the last train call ended: "new" (no call), "trained" or "ValueError"
  train_notes,            \* the notes argument of the last train call
  gen_pc,                 \* generate_all_sequences: "idle", "running", "returned", "raised"
  gen_instruments,        \* its instruments argument
  gen_length,             \* its length argument
  gen_index,              \* index of the instrument of the running iteration
  axis,                   \* the axis sequence the iteration generates next
  pitch_sequence,
  duration_sequence,
  velocity_sequence,
  melodies_dict,
  sequences_data,
  seq_pc,                 \* _generate_sequence: "idle" or "loop"
  sequence,               \* its local sequence
  current_state,          \* its local current_state
  seq_iter                \* iterations of its loop done so far

\* Calls of the module-level functions of the front ends.
VARIABLES
  q_duration,             \* quantize_duration: its duration argument, in fine ticks
  q_grid,                 \* its quantization argument, in fine ticks
  q_results,              \* what successive calls returned, each fed to the next
  r_pitch,                \* adjust_pitch_to_range: its note_pitch argument
  r_instrument,           \* its instrument argument
  r_results,              \* what successive calls returned, each fed to the next
  base_time_sig,          \* generate_time_signature_sequence: its arguments
  num_measures,
  random_changes,
  sched_pc,               \* "idle", "loop" or "returned"
  time_sig_sequence,      \* its local list, returned at the end
  current_time_sig,       \* its local current_time_sig
  measure_num             \* the loop variable: the next measure to visit

\* MarkovMusicApp: the fields the dialogs and the generation thread share.
VARIABLES
  midi_files,             \* self.midi_files
  available_voices,       \* self.available_voices: voice name -> events
  selected_instruments,   \* self.selected_instruments
  voice_mappings,         \* self.voice_mappings, in insertion order, as
                          \* the pairs <<instrument, voice name>>
  use_midi_var,           \* self.use_midi_var
  training_data_dict,     \* self.training_data_dict, in insertion order,
                          \* as the pairs <<instrument, events>>
  thread_pc,              \* _generate_music_thread: "none", "started",
                          \* "score" (the score was built) or "error"
  score_instruments       \* the instruments handed to
                          \* visualize_multi_voice_melody with the melodies

appVars ==
  << midi_files, available_voices, selected_instruments, voice_mappings,
     use_midi_var, training_data_dict, thread_pc, score_instruments >>

quantizeVars == << q_duration, q_grid, q_results >>

rangeVars == << r_pitch, r_instrument, r_results >>

scheduleVars ==
  << base_time_sig, num_measures, random_changes, sched_pc, time_sig_sequence,
     current_time_sig, measure_num >>

pureVars == << quantizeVars, rangeVars, scheduleVars >>

layoutVars ==
  << time_signature, time_sig_changes, instruments, melodies, voice, score,
     part, current_measure, current_ts, measure_length, measure_duration,
     current_dynamic, measure_count >>

modelVars ==
  << states, order, initial_probabilities, transition_matrix, pitch_matrix,
     duration_matrix, velocity_matrix, generated_sequences >>

genVars ==
  << gen_pc, gen_instruments, gen_length, gen_index, axis, pitch_sequence,
     duration_sequence, velocity_sequence, melodies_dict, sequences_data,
     seq_pc, sequence, current_state, seq_iter >>

markovVars ==
  << training_data, train_status, train_notes, modelVars, genVars >>

vars == << layoutVars, markovVars, pureVars, appVars >>

\* ------------------------------------------------------------------------
\* Elements of a measure.  ev is the index of the input event an element
\* comes from (0 for the trailing rest that fills the last measure).
\* ------------------------------------------------------------------------
Note(p, ql, vel, ev) ==
  [ kind |-> "Note", pitch |-> p, quarterLength |-> ql, velocity |-> vel,
    tie |-> "None", value |-> "None", ev |-> ev ]

Rest(ql, ev) ==
  [ kind |-> "Rest", pitch |-> R, quarterLength |-> ql, velocity |-> 0,
    tie |-> "None", value |-> "None", ev |-> ev ]

Dynamic(dyn, ev) ==
  [ kind |-> "Dynamic", pitch |-> R, quarterLength |-> 0, velocity |-> 0,
    tie |-> "None", value |-> dyn, ev |-> ev ]

\* stream.Measure(number=n): sigs are the TimeSignature objects inserted at
\* offset 0, items the appended elements.  ts and length record the loop's
\* current_ts and measure_length when the measure was appended to the part.
Measure(n) ==
  [ number |-> n, sigs |-> <<>>, items |-> <<>>, ts |-> <<0, 0>>, length |-> 0 ]

InsertSig(m, ts) == [ m EXCEPT !.sigs = Append(@, ts) ]

AppendItem(m, x) == [ m EXCEPT !.items = Append(@, x) ]

\* The tie is put on the first element of the measure.
TieFirst(m, t) == [ m EXCEPT !.items[1].tie = t ]

\* n.tie = tie.Tie('start') on the last appended element of a measure.
TieLast(m, t) == [ m EXCEPT !.items[Len(m.items)].tie = t ]

\* The measure as it is appended to the part.
Closed(m, ts, len) == [ m EXCEPT !.ts = ts, !.length = len ]

\* ------------------------------------------------------------------------
\* Markov trainer: MarkovChainMelodyGenerator.train
\* ------------------------------------------------------------------------
\* A dictionary is a function on its key set; <<>> is the empty dictionary.
\* A probability count / total is the pair <<count, total>>; a total of 0
\* stands for the division by zero.

\* Events of a training corpus, quantized: two notes of different velocity
\* and a rest, which the loader gives the velocity 64.
TrainNotes ==
  { << <<"C", 4>>, 4, "mf", "normal", 64 >>,
    << <<"C", 4>>, 4, "f", "normal", 80 >>,
    << R, 4, "mf", "normal", 64 >> }

\* Longest training corpus.
MaxCorpus == 3

\* Longest requested sequence.
MaxLength == 2

\* Chain orders offered by the front ends.
Orders == 1..3

Corpora == UNION { [1..n -> TrainNotes] : n \in 1..MaxCorpus }

RECURSIVE SumOver(_, _)
\* sum(d[k] for k in keys)
SumOver(d, keys) ==
  IF keys = {} THEN 0
  ELSE LET k == CHOOSE x \in keys : TRUE
       IN d[k] + SumOver(d, keys \ {k})

\* d[outer][inner] = d[outer].get(inner, 0) + 1, creating the row if needed.
AddTransition(matrix, cur, nxt) ==
  LET row == IF cur \in DOMAIN matrix THEN matrix[cur] ELSE <<>>
      count == IF nxt \in DOMAIN row THEN row[nxt] ELSE 0
  IN (cur :> ((nxt :> count + 1) @@ row)) @@ matrix

RECURSIVE CountPairsShort(_, _, _)
\* The loop runs over range(len(seq) - 2): the last pair is not counted.
CountPairsShort(matrix, seq, i) ==
  IF i > Len(seq) - 2 THEN matrix
  ELSE CountPairsShort(AddTransition(matrix, seq[i], seq[i + 1]), seq, i + 1)

RECURSIVE CountPairs(_, _, _)
\* for i in range(len(seq) - 1): count the transition seq[i] -> seq[i + 1]
CountPairs(matrix, seq, i) ==
  IF i > Len(seq) - 1 THEN matrix
  ELSE CountPairs(AddTransition(matrix, seq[i], seq[i + 1]), seq, i + 1)

RECURSIVE CountJoint(_, _, _, _)
\* for i in range(len(notes) - order): count tuple(notes[i:i+order]) -> notes[i+order]
CountJoint(matrix, notes, k, i) ==
  IF i > Len(notes) - k THEN matrix
  ELSE CountJoint(AddTransition(matrix, SubSeq(notes, i, i + k - 1), notes[i + k]),
                  notes, k, i + 1)

RECURSIVE CountGrams(_, _, _, _)
\* for i in range(len(notes) - order + 1): count tuple(notes[i:i+order])
CountGrams(dist, notes, k, i) ==
  IF i > Len(notes) - k + 1 THEN dist
  ELSE LET state == SubSeq(notes, i, i + k - 1)
           count == IF state \in DOMAIN dist THEN dist[state] ELSE 0
       IN CountGrams((state :> count + 1) @@ dist, notes, k, i + 1)

\* count / total
Divide(count, total) == <<count, total>>

\* RowTotal taken as the number of entries of the row.
RowTotalEntries(row) == Cardinality(DOMAIN row)

\* total = sum(matrix[state].values())
RowTotal(row) == SumOver(row, DOMAIN row)

_normalize_matrix(matrix) ==
  [ state \in DOMAIN matrix |->
      [ next_state \in DOMAIN matrix[state] |->
          Divide(matrix[state][next_state], RowTotal(matrix[state])) ] ]

_calculate_initial_probabilities(dist, notes, k) ==
  LET counted == CountGrams(dist, notes, k, 1)
      total == SumOver(counted, DOMAIN counted)
  IN [ state \in DOMAIN counted |-> Divide(counted[state], total) ]

_calculate_transition_matrix(matrix, notes, k) ==
  _normalize_matrix(CountJoint(matrix, notes, k, 1))

\* The sequence of the values at one position of the event tuples.
AxisOf(notes, pos) == [ i \in 1..Len(notes) |-> notes[i][pos] ]

\* One of the three tables of _calculate_separate_matrices: pos is 1 for
\* the pitch, 2 for the duration and 5 for the velocity.
CalculateSeparateMatrix(matrix, notes, pos) ==
  _normalize_matrix(CountPairs(matrix, AxisOf(notes, pos), 1))

\* The test is left out.
EmptyCorpusNever(notes) == FALSE

\* if not notes
EmptyCorpus(notes) == notes = <<>>

\* model.train(notes): with the corpus on the model just constructed, with
\* an empty list at any time.
Train(notes) ==
  /\ train_status = "new" \/ notes = <<>>
  /\ gen_pc # "running"
  /\ train_notes' = notes
  /\ IF EmptyCorpus(notes)
       THEN /\ train_status' = "ValueError"
            /\ UNCHANGED << initial_probabilities, transition_matrix,
                            pitch_matrix, duration_matrix, velocity_matrix >>
       ELSE /\ train_status' = "trained"
            /\ initial_probabilities' =
                 _calculate_initial_probabilities(initial_probabilities, notes, order)
            /\ transition_matrix' =
                 _calculate_transition_matrix(transition_matrix, notes, order)
            /\ pitch_matrix' = CalculateSeparateMatrix(pitch_matrix, notes, 1)
            /\ duration_matrix' = CalculateSeparateMatrix(duration_matrix, notes, 2)
            /\ velocity_matrix' = CalculateSeparateMatrix(velocity_matrix, notes, 5)
  /\ UNCHANGED << training_data, states, order, generated_sequences, genVars,
                  layoutVars, pureVars,
                  appVars >>

\* ------------------------------------------------------------------------
\* Sequence generator: generate_all_sequences and _generate_sequence
\* ------------------------------------------------------------------------
\* The table _generate_sequence is called with for an axis.
AxisMatrix(a) ==
  IF a = "pitch" THEN pitch_matrix
  ELSE IF a = "duration" THEN duration_matrix
  ELSE velocity_matrix

\* SeedStates drawing the first symbol among the successors of the rows.
SeedStatesSuccessors(matrix) ==
  UNION { DOMAIN matrix[state] : state \in DOMAIN matrix }

\* random.choice(list(matrix.keys())): the outcomes of the first draw.
SeedStates(matrix) == DOMAIN matrix

\* The outcomes of random.choices(next_states, weights=probabilities): the
\* successors of positive weight.
Support(row) == { next_state \in DOMAIN row : row[next_state][1] > 0 }

\* A state without a row is followed by a draw among the successors.
NextStatesAmongSuccessors(matrix, cur) ==
  IF cur \in DOMAIN matrix THEN Support(matrix[cur])
                            ELSE SeedStatesSuccessors(matrix)

\* The outcomes of one iteration of the loop of _generate_sequence.
NextStates(matrix, cur) ==
  IF cur \in DOMAIN matrix THEN Support(matrix[cur]) ELSE DOMAIN matrix

\* range(length) in place of range(length - 1).
LoopCountFull(length) == IF length > 0 THEN length ELSE 0

\* The number of iterations of `for _ in range(length - 1)`.
LoopCount(length) == IF length - 1 > 0 THEN length - 1 ELSE 0

\* Instruments of one generation call: the doublings of a base instrument.
MaxDoublings == 1

\* The instrument lists generation is asked for: 'Violin I #1', ...
GenInstruments ==
  { [ i \in 1..n |-> <<"Violin I", i>> ] : n \in 1..MaxDoublings }

\* melodies_dict = model.generate_all_sequences(insts, length): the call,
\* made once on a model as the front ends do.
GenerateAllSequences(insts, length) ==
  /\ gen_pc = "idle"
  /\ gen_pc' = "running"
  /\ gen_instruments' = insts
  /\ gen_length' = length
  /\ gen_index' = 1
  /\ axis' = "pitch"
  /\ melodies_dict' = <<>>
  /\ sequences_data' = <<>>
  /\ pitch_sequence' = <<>>
  /\ duration_sequence' = <<>>
  /\ velocity_sequence' = <<>>
  /\ UNCHANGED << seq_pc, sequence, current_state, seq_iter, training_data,
                  train_status, train_notes, modelVars, layoutVars, pureVars,
                  appVars >>

\* The exception is swallowed and the call returns.
EmptyTableReturns == "returned"

\* if not matrix: raise ValueError("Matriz de transição vazia")
EmptyTableOutcome == "raised"

\* _generate_sequence(length, matrix) up to its loop: the empty table
\* raises, and the exception leaves generate_all_sequences too.
GenerateSequenceCall ==
  /\ gen_pc = "running"
  /\ seq_pc = "idle"
  /\ gen_index <= Len(gen_instruments)
  /\ axis \in {"pitch", "duration", "velocity"}
  /\ IF DOMAIN AxisMatrix(axis) = {}
       THEN /\ gen_pc' = EmptyTableOutcome
            /\ UNCHANGED << seq_pc, sequence, current_state, seq_iter >>
       ELSE /\ \E seed \in SeedStates(AxisMatrix(axis)) :
                 /\ current_state' = seed
                 /\ sequence' = <<seed>>
            /\ seq_pc' = "loop"
            /\ seq_iter' = 0
            /\ gen_pc' = gen_pc
  /\ UNCHANGED << gen_instruments, gen_length, gen_index, axis, pitch_sequence,
                  duration_sequence, velocity_sequence, melodies_dict,
                  sequences_data, training_data, train_status, train_notes,
                  modelVars, layoutVars, pureVars,
                  appVars >>

\* The dictionary without the row of a state.
WithoutRow(matrix, state) ==
  [ s \in (DOMAIN matrix) \ {state} |-> matrix[s] ]

\* The iteration takes the row of the current state out of the table
\* (matrix.pop(current_state) in place of matrix[current_state]).
GenerateSequenceStepPopping ==
  /\ seq_pc = "loop"
  /\ seq_iter < LoopCount(gen_length)
  /\ \E next_state \in NextStates(AxisMatrix(axis), current_state) :
       /\ current_state' = next_state
       /\ sequence' = Append(sequence, next_state)
  /\ seq_iter' = seq_iter + 1
  /\ pitch_matrix' = IF axis = "pitch"
                       THEN WithoutRow(pitch_matrix, current_state)
                       ELSE pitch_matrix
  /\ duration_matrix' = IF axis = "duration"
                          THEN WithoutRow(duration_matrix, current_state)
                          ELSE duration_matrix
  /\ velocity_matrix' = IF axis = "velocity"
                          THEN WithoutRow(velocity_matrix, current_state)
                          ELSE velocity_matrix
  /\ UNCHANGED << gen_pc, gen_instruments, gen_length, gen_index, axis,
                  pitch_sequence, duration_sequence, velocity_sequence,
                  melodies_dict, sequences_data, seq_pc, training_data,
                  train_status, train_notes, states, order,
                  initial_probabilities, transition_matrix,
                  generated_sequences, layoutVars, pureVars,
                  appVars >>

\* One iteration of the loop of _generate_sequence.
GenerateSequenceStep ==
  /\ seq_pc = "loop"
  /\ seq_iter < LoopCount(gen_length)
  /\ \E next_state \in NextStates(AxisMatrix(axis), current_state) :
       /\ current_state' = next_state
       /\ sequence' = Append(sequence, next_state)
  /\ seq_iter' = seq_iter + 1
  /\ UNCHANGED << gen_pc, gen_instruments, gen_length, gen_index, axis,
                  pitch_sequence, duration_sequence, velocity_sequence,
                  melodies_dict, sequences_data, seq_pc,
                  training_data, train_status, train_notes, modelVars, layoutVars, pureVars,
                  appVars >>

\* return sequence, assigned by generate_all_sequences.
GenerateSequenceReturn ==
  /\ seq_pc = "loop"
  /\ seq_iter >= LoopCount(gen_length)
  /\ seq_pc' = "idle"
  /\ pitch_sequence' = IF axis = "pitch" THEN sequence ELSE pitch_sequence
  /\ duration_sequence' = IF axis = "duration" THEN sequence ELSE duration_sequence
  /\ velocity_sequence' = IF axis = "velocity" THEN sequence ELSE velocity_sequence
  /\ axis' = IF axis = "pitch" THEN "duration"
             ELSE IF axis = "duration" THEN "velocity" ELSE "zip"
  /\ sequence' = <<>>
  /\ UNCHANGED << gen_pc, gen_instruments, gen_length, gen_index, melodies_dict,
                  sequences_data, current_state, seq_iter,
                  training_data, train_status, train_notes, modelVars, layoutVars, pureVars,
                  appVars >>

\* The rest of one iteration of `for instrument in instruments`: the three
\* sequences are zipped into the melody of the instrument.
BuildMelody ==
  /\ gen_pc = "running"
  /\ axis = "zip"
  /\ LET instrument == gen_instruments[gen_index]
         melody == [ i \in 1..gen_length |->
                       << pitch_sequence[i], duration_sequence[i],
                          map_velocity_to_dynamic(velocity_sequence[i]),
                          "normal", velocity_sequence[i] >> ]
     IN /\ melodies_dict' = (instrument :> melody) @@ melodies_dict
        /\ sequences_data' =
             (instrument :> [ pitch |-> pitch_sequence,
                              duration |-> duration_sequence,
                              velocity |-> velocity_sequence ]) @@ sequences_data
  /\ gen_index' = gen_index + 1
  /\ axis' = "pitch"
  /\ UNCHANGED << gen_pc, gen_instruments, gen_length, pitch_sequence,
                  duration_sequence, velocity_sequence, seq_pc, sequence,
                  current_state, seq_iter, training_data,
                  train_status, train_notes, modelVars, layoutVars, pureVars,
                  appVars >>

\* self.generated_sequences = sequences_data; return melodies_dict
GenerateAllReturn ==
  /\ gen_pc = "running"
  /\ seq_pc = "idle"
  /\ gen_index > Len(gen_instruments)
  /\ generated_sequences' = sequences_data
  /\ gen_pc' = "returned"
  /\ UNCHANGED << gen_instruments, gen_length, gen_index, axis, pitch_sequence,
                  duration_sequence, velocity_sequence, melodies_dict,
                  sequences_data, seq_pc, sequence, current_state, seq_iter,
                  training_data, train_status, train_notes, states, order,
                  initial_probabilities, transition_matrix, pitch_matrix,
                  duration_matrix, velocity_matrix, layoutVars, pureVars,
                  appVars >>

\* No generation call was made yet.
GeneratorIdle ==
  /\ gen_pc = "idle"
  /\ gen_instruments = <<>>
  /\ gen_length = 0
  /\ gen_index = 1
  /\ axis = "pitch"
  /\ pitch_sequence = <<>>
  /\ duration_sequence = <<>>
  /\ velocity_sequence = <<>>
  /\ melodies_dict = <<>>
  /\ sequences_data = <<>>
  /\ seq_pc = "idle"
  /\ sequence = <<>>
  /\ current_state = <<>>
  /\ seq_iter = 0

\* MarkovChainMelodyGenerator(states, order): the tables start empty.
Constructed(data, k) ==
  /\ training_data = data
  /\ states = { data[i] : i \in 1..Len(data) }
  /\ order = k
  /\ initial_probabilities = <<>>
  /\ transition_matrix = <<>>
  /\ pitch_matrix = <<>>
  /\ duration_matrix = <<>>
  /\ velocity_matrix = <<>>
  /\ generated_sequences = <<>>
  /\ train_status = "new"
  /\ train_notes = <<>>
  /\ GeneratorIdle

\* No call of a module-level function was made.
QuantizeIdle ==
  /\ q_duration = 0
  /\ q_grid = 1
  /\ q_results = <<>>

RangeIdle ==
  /\ r_pitch = R
  /\ r_instrument = <<"Violin I", 0>>
  /\ r_results = <<>>

ScheduleIdle ==
  /\ base_time_sig = <<4, 4>>
  /\ num_measures = 0
  /\ random_changes = FALSE
  /\ sched_pc = "idle"
  /\ time_sig_sequence = <<>>
  /\ current_time_sig = <<4, 4>>
  /\ measure_num = 1

\* MarkovMusicApp.__init__: nothing is selected, MIDI input is switched on.
AppIdle ==
  /\ midi_files = <<>>
  /\ available_voices = <<>>
  /\ selected_instruments = <<>>
  /\ voice_mappings = <<>>
  /\ use_midi_var = TRUE
  /\ training_data_dict = <<>>
  /\ thread_pc = "none"
  /\ score_instruments = <<>>

\* ------------------------------------------------------------------------
\* Layout assembler: create_score / visualize_multi_voice_melody
\* ------------------------------------------------------------------------
\* The loop variables as each iteration of the per-voice loop initialises
\* them: measure 1 carries the base time signature.
StartPart ==
  /\ part' = <<>>
  /\ current_measure' = InsertSig(Measure(1), time_signature)
  /\ current_ts' = time_signature
  /\ measure_length' = get_time_signature_value(time_signature)
  /\ measure_duration' = 0
  /\ current_dynamic' = "None"
  /\ measure_count' = 1

\* ActiveTimeSig without the test that the open measure is empty.
ActiveTimeSigMidMeasure ==
  IF measure_count \in DOMAIN time_sig_changes
    THEN time_sig_changes[measure_count]
    ELSE current_ts

\* The time signature in force for the event about to be placed: the entry
\* of time_sig_changes for measure_count, taken only while the open measure
\* has measure_duration 0.
ActiveTimeSig ==
  IF measure_count \in DOMAIN time_sig_changes /\ measure_duration = 0
    THEN time_sig_changes[measure_count]
    ELSE current_ts

\* The length of the fragment placed now.
AdjustedDuration(duration, remaining_space) ==
  IF duration > remaining_space /\ remaining_space > 0
    THEN remaining_space
    ELSE duration

\* CarriesRemainder without the test `duration > adjusted_duration`.
CarriesRemainderAlways(adjusted_pitch, duration, adjusted_duration) ==
  adjusted_pitch # R

\* The remainder of a split event carried into the new measure: only a
\* pitched event gets a remaining_note.
CarriesRemainder(adjusted_pitch, duration, adjusted_duration) ==
  duration > adjusted_duration /\ adjusted_pitch # R

\* RemainingDuration without the subtraction of the placed fragment.
RemainingDurationWhole(duration, adjusted_duration) == duration

\* remaining_duration of a split event.
RemainingDuration(duration, adjusted_duration) == duration - adjusted_duration

\* The measure is appended to the part once it is full.
MeasureFull(duration_now, length) == duration_now >= length

\* The comparison is made for rests too.
MarkedAnyEvent(adjusted_pitch, dyn, current) == dyn # current

\* A Dynamic is appended before the note: the event is pitched and
\* dyn != current_dynamic.
Marked(adjusted_pitch, dyn, current) == adjusted_pitch # R /\ dyn # current

\* One iteration of `for note_data in melody`, for the melody of the current
\* voice; limit bounds the number of events of a melody.
ProcessNote(limit, note_data) ==
  /\ voice <= Len(instruments)
  /\ Len(melodies[voice]) < limit
  /\ LET pitch_name == note_data[1]
         duration == note_data[2]
         dyn == note_data[3]
         vel == note_data[5]
         ev == Len(melodies[voice]) + 1
         adjusted_pitch == adjust_pitch_to_range(pitch_name, instruments[voice])
         new_ts == ActiveTimeSig
         changed == new_ts # current_ts
         ts1 == new_ts
         length1 == IF changed THEN get_time_signature_value(new_ts)
                               ELSE measure_length
         m0 == IF changed THEN InsertSig(current_measure, new_ts)
                          ELSE current_measure
         remaining_space == length1 - measure_duration
         adjusted_duration == AdjustedDuration(duration, remaining_space)
         n == IF adjusted_pitch = R
                THEN Rest(adjusted_duration, ev)
                ELSE Note(adjusted_pitch, adjusted_duration, vel, ev)
         marked == Marked(adjusted_pitch, dyn, current_dynamic)
         m1 == IF marked THEN AppendItem(m0, Dynamic(dyn, ev)) ELSE m0
         m2 == AppendItem(m1, n)
         duration1 == measure_duration + adjusted_duration
         carried == CarriesRemainder(adjusted_pitch, duration, adjusted_duration)
         remaining_duration == RemainingDuration(duration, adjusted_duration)
         remaining_note ==
           [ Note(adjusted_pitch, remaining_duration, vel, ev) EXCEPT !.tie = "stop" ]
         fresh == Measure(Len(part) + 2)
     IN /\ melodies' = [ melodies EXCEPT ![voice] = Append(@, note_data) ]
        /\ current_ts' = ts1
        /\ measure_length' = length1
        /\ current_dynamic' = IF marked THEN dyn ELSE current_dynamic
        /\ IF MeasureFull(duration1, length1)
             THEN /\ part' = Append(part,
                        Closed(IF carried THEN TieLast(m2, "start") ELSE m2,
                               ts1, length1))
                  /\ measure_count' = measure_count + 1
                  /\ current_measure' =
                       IF carried THEN AppendItem(fresh, remaining_note) ELSE fresh
                  /\ measure_duration' = IF carried THEN remaining_duration ELSE 0
             ELSE /\ part' = part
                  /\ measure_count' = measure_count
                  /\ current_measure' = m2
                  /\ measure_duration' = duration1
  /\ UNCHANGED << time_signature, time_sig_changes, instruments, voice, score,
                  markovVars, pureVars,
                  appVars >>

\* The open measure after the loop: filled with a rest when it is not full.
PaddedMeasure ==
  IF measure_duration < measure_length
    THEN AppendItem(current_measure, Rest(measure_length - measure_duration, 0))
    ELSE current_measure

\* The open measure is appended without the test of its duration.
FinishedPartAlways ==
  Append(part, Closed(PaddedMeasure, current_ts, measure_length))

\* The part after the loop: the open measure is appended when something
\* was placed in it.
FinishedPart ==
  IF measure_duration > 0
    THEN Append(part, Closed(PaddedMeasure, current_ts, measure_length))
    ELSE part

\* The end of one iteration of `for melody, instr_name in zip(...)`: the
\* melody is exhausted, the part goes to the score and the next iteration
\* initialises the loop variables again.
FinishVoice ==
  /\ voice <= Len(instruments)
  /\ score' = Append(score, FinishedPart)
  /\ voice' = voice + 1
  /\ StartPart
  /\ UNCHANGED << time_signature, time_sig_changes, instruments, melodies,
                  markovVars, pureVars,
                  appVars >>

\* create_score is called with nvoices melodies.
InitLayout(nvoices) ==
  /\ time_signature \in TIME_SIGNATURES
  /\ time_sig_changes \in Schedules(time_signature)
  /\ instruments = SubSeq(Instruments, 1, nvoices)
  /\ melodies = [ v \in 1..nvoices |-> <<>> ]
  /\ voice = 1
  /\ score = <<>>
  /\ part = <<>>
  /\ current_measure = InsertSig(Measure(1), time_signature)
  /\ current_ts = time_signature
  /\ measure_length = get_time_signature_value(time_signature)
  /\ measure_duration = 0
  /\ current_dynamic = "None"
  /\ measure_count = 1
  /\ Constructed(<<>>, 1)
  /\ AppIdle
  /\ QuantizeIdle
  /\ RangeIdle
  /\ ScheduleIdle

\* One voice.
InitOneVoice == InitLayout(1)

NextLayout ==
  \/ \E note_data \in NoteData : ProcessNote(MaxEvents, note_data)
  \/ FinishVoice

SpecLayout == InitOneVoice /\ [][NextLayout]_vars

\* An ensemble of NumVoices voices under one schedule.
InitEnsemble == InitLayout(NumVoices)

NextEnsemble ==
  \/ \E note_data \in NoteData : ProcessNote(MaxEnsembleEvents, note_data)
  \/ FinishVoice

SpecEnsemble == InitEnsemble /\ [][NextEnsemble]_vars

\* create_score does not look at the durations it is given: melodies that
\* also hold events of duration 0, three events at most.
MaxUncheckedEvents == 3

UncheckedNoteData ==
  { <<p, d, "mf", "normal", 64>> : p \in Pitches, d \in {0, 4} }

NextLayoutUnchecked ==
  \/ \E note_data \in UncheckedNoteData :
       ProcessNote(MaxUncheckedEvents, note_data)
  \/ FinishVoice

SpecLayoutUnchecked == InitOneVoice /\ [][NextLayoutUnchecked]_vars

\* The loops of create_score run over finite lists, so an iteration that
\* can be taken is taken: melodies of up to MaxFairEvents events.
MaxFairEvents == 3

NextLayoutFair ==
  \/ \E note_data \in NoteData : ProcessNote(MaxFairEvents, note_data)
  \/ FinishVoice

SpecLayoutFair ==
  InitOneVoice /\ [][NextLayoutFair]_vars /\ WF_vars(NextLayoutFair)

\* A model is constructed for a corpus, trained and asked for melodies;
\* create_score is not called.
\* create_score is not called.
LayoutIdle ==
  /\ time_signature = <<4, 4>>
  /\ time_sig_changes = <<>>
  /\ instruments = <<>>
  /\ melodies = <<>>
  /\ voice = 1
  /\ score = <<>>
  /\ part = <<>>
  /\ current_measure = Measure(1)
  /\ current_ts = <<4, 4>>
  /\ measure_length = 0
  /\ measure_duration = 0
  /\ current_dynamic = "None"
  /\ measure_count = 1

InitMarkov ==
  /\ \E data \in Corpora : \E k \in Orders : Constructed(data, k)
  /\ AppIdle
  /\ LayoutIdle
  /\ QuantizeIdle
  /\ RangeIdle
  /\ ScheduleIdle

\* model.train is called with the corpus the model was built for, or with
\* an empty list.
TrainCall == \E notes \in {training_data, <<>>} : Train(notes)

NextMarkov ==
  \/ TrainCall
  \/ \E insts \in GenInstruments : \E length \in 0..MaxLength :
       GenerateAllSequences(insts, length)
  \/ GenerateSequenceCall
  \/ GenerateSequenceStep
  \/ GenerateSequenceReturn
  \/ BuildMelody
  \/ GenerateAllReturn

SpecMarkov == InitMarkov /\ [][NextMarkov]_vars

\* Melodies long enough for a symbol to follow one that has no row: a model
\* of order 1 is trained and asked for MaxLongLength symbols for one
\* instrument.
MaxLongLength == 3

InitMarkovLong ==
  /\ \E data \in Corpora : Constructed(data, 1)
  /\ AppIdle
  /\ LayoutIdle
  /\ QuantizeIdle
  /\ RangeIdle
  /\ ScheduleIdle

NextMarkovLong ==
  \/ TrainCall
  \/ GenerateAllSequences(<< <<"Violin I", 1>> >>, MaxLongLength)
  \/ GenerateSequenceCall
  \/ GenerateSequenceStep
  \/ GenerateSequenceReturn
  \/ BuildMelody
  \/ GenerateAllReturn

SpecMarkovLong == InitMarkovLong /\ [][NextMarkovLong]_vars

\* ------------------------------------------------------------------------
\* Quantizer: quantize_duration
\* ------------------------------------------------------------------------
\* quantize_duration works on quarter lengths that need not be multiples of
\* 0.25: they are counted here in fine ticks of 1/24 quarter note, which
\* makes the threshold 0.125 and grids such as 1/3 whole numbers.
FineTicks == 6 * TicksPerQuarter

\* The grids the front ends offer: 0.25, 0.5, 1.0 and 2.0.
QUANTIZATION_OPTIONS ==
  { FineTicks \div 4, FineTicks \div 2, FineTicks, 2 * FineTicks }

\* Python's round() of the quotient duration / quantization: to the nearest
\* integer, a tie going to the even one.
RoundHalfEven(duration, quantization) ==
  LET q == duration \div quantization
      r == duration % quantization
  IN  IF 2 * r < quantization THEN q
      ELSE IF 2 * r > quantization THEN q + 1
      ELSE IF q % 2 = 0 THEN q ELSE q + 1

\* The grid count returned as if it were a quarter length.
RoundToGridCount(duration, quantization) ==
  RoundHalfEven(duration, quantization) * FineTicks

\* quantized = round(duration / quantization) * quantization
RoundToGrid(duration, quantization) ==
  RoundHalfEven(duration, quantization) * quantization

\* Only the lower limit is applied.
ClampDurationLowOnly(quantized) ==
  IF 8 * quantized < FineTicks THEN FineTicks \div 4 ELSE quantized

\* Below 0.125 the result becomes 0.25; above 4.0 it becomes 4.0.
ClampDuration(quantized) ==
  IF 8 * quantized < FineTicks THEN FineTicks \div 4
  ELSE IF quantized > 4 * FineTicks THEN 4 * FineTicks
  ELSE quantized

quantize_duration(duration, quantization) ==
  ClampDuration(RoundToGrid(duration, quantization))

\* Durations run up to 5.0 quarter notes, past the upper limit of 4.0.
MaxDurationTicks == 120

\* Grids run up to 3.0 quarter notes.
MaxGridTicks == 72

\* quantize_duration(duration, quantization), then again on what it returned.
QuantizeCall ==
  /\ Len(q_results) < 2
  /\ q_results' =
       Append(q_results,
              quantize_duration(IF q_results = <<>> THEN q_duration
                                                   ELSE q_results[Len(q_results)],
                                q_grid))
  /\ UNCHANGED << q_duration, q_grid, rangeVars, scheduleVars, layoutVars,
                  markovVars,
                  appVars >>

InitQuantize ==
  /\ q_duration \in 0..MaxDurationTicks
  /\ q_grid \in 1..MaxGridTicks
  /\ q_results = <<>>
  /\ RangeIdle
  /\ ScheduleIdle
  /\ LayoutIdle
  /\ Constructed(<<>>, 1)
  /\ AppIdle

NextQuantize == QuantizeCall

SpecQuantize == InitQuantize /\ [][NextQuantize]_vars

\* ------------------------------------------------------------------------
\* Range normalizer: adjust_pitch_to_range
\* ------------------------------------------------------------------------
\* Octaves run from -1 (MIDI note 0 is C-1) up to MaxOctave.
MaxOctave == 9

\* The pitches of MIDI notes 0..127, and the rest.
RangePitches ==
  { p \in (DOMAIN StepSemitones) \X (-1..MaxOctave) : Midi(p) <= 127 } \cup {R}

\* Labels as app builds them: a name of the range table or a name it does
\* not hold, alone or followed by ' #i'.
RangeLabels ==
  ((DOMAIN INSTRUMENT_RANGES) \cup {"Theremin"}) \X (0..(MaxDoublings + 1))

\* adjust_pitch_to_range(note_pitch, instrument), then again on what it
\* returned: generation and create_score both apply it.
RangeCall ==
  /\ Len(r_results) < 2
  /\ r_results' =
       Append(r_results,
              adjust_pitch_to_range(IF r_results = <<>> THEN r_pitch
                                                       ELSE r_results[Len(r_results)],
                                    r_instrument))
  /\ UNCHANGED << r_pitch, r_instrument, quantizeVars, scheduleVars,
                  layoutVars, markovVars,
                  appVars >>

InitRange ==
  /\ r_pitch \in RangePitches
  /\ r_instrument \in RangeLabels
  /\ r_results = <<>>
  /\ QuantizeIdle
  /\ ScheduleIdle
  /\ LayoutIdle
  /\ Constructed(<<>>, 1)
  /\ AppIdle

NextRange == RangeCall

SpecRange == InitRange /\ [][NextRange]_vars

\* ------------------------------------------------------------------------
\* Schedule generator: generate_time_signature_sequence
\* ------------------------------------------------------------------------
available_time_sigs ==
  { <<4, 4>>, <<3, 4>>, <<2, 4>>, <<3, 8>>, <<6, 8>>, <<12, 8>> }

\* The test without `measure_num > 1`.
ChangesHereAnyMeasure(measure, draw) == draw

\* measure_num > 1 and random.random() < 0.15, draw telling how the random
\* number fell.
ChangesHere(measure, draw) == measure > 1 /\ draw

\* The candidates without the filter.
OtherSigsUnfiltered(current) == available_time_sigs

\* other_sigs = [sig for sig in available_time_sigs if sig != current_time_sig]
OtherSigs(current) == available_time_sigs \ {current}

\* The estimated measure counts tried, 1..MaxMeasures: the front ends pass
\* int(melody_length * 0.75 / 3.5) + 10, which is never below 1.
MaxMeasures == 4

\* generate_time_signature_sequence(base_time_sig, num_measures,
\* random_changes) up to its loop.
ScheduleCall ==
  /\ sched_pc = "idle"
  /\ IF ~random_changes
       THEN /\ time_sig_sequence' = << <<1, base_time_sig>> >>
            /\ sched_pc' = "returned"
            /\ UNCHANGED << current_time_sig, measure_num >>
       ELSE /\ time_sig_sequence' = <<>>
            /\ current_time_sig' = base_time_sig
            /\ measure_num' = 1
            /\ sched_pc' = "loop"
  /\ UNCHANGED << base_time_sig, num_measures, random_changes, quantizeVars,
                  rangeVars, layoutVars, markovVars,
                  appVars >>

\* One iteration of `for measure_num in range(1, num_measures + 1)`.
ScheduleStep ==
  /\ sched_pc = "loop"
  /\ measure_num <= num_measures
  /\ \E draw \in BOOLEAN :
       IF ChangesHere(measure_num, draw)
         THEN \E sig \in OtherSigs(current_time_sig) :
                /\ current_time_sig' = sig
                /\ time_sig_sequence' =
                     Append(time_sig_sequence, <<measure_num, sig>>)
         ELSE IF measure_num = 1
           THEN /\ time_sig_sequence' =
                     Append(time_sig_sequence, <<1, current_time_sig>>)
                /\ UNCHANGED current_time_sig
           ELSE UNCHANGED << time_sig_sequence, current_time_sig >>
  /\ measure_num' = measure_num + 1
  /\ UNCHANGED << base_time_sig, num_measures, random_changes, sched_pc,
                  quantizeVars, rangeVars, layoutVars, markovVars,
                  appVars >>

\* return time_sig_sequence
ScheduleReturn ==
  /\ sched_pc = "loop"
  /\ measure_num > num_measures
  /\ sched_pc' = "returned"
  /\ UNCHANGED << base_time_sig, num_measures, random_changes,
                  time_sig_sequence, current_time_sig, measure_num,
                  quantizeVars, rangeVars, layoutVars, markovVars,
                  appVars >>

InitSchedule ==
  /\ base_time_sig \in TIME_SIGNATURES
  /\ num_measures \in 1..MaxMeasures
  /\ random_changes \in BOOLEAN
  /\ sched_pc = "idle"
  /\ time_sig_sequence = <<>>
  /\ current_time_sig = <<4, 4>>
  /\ measure_num = 1
  /\ QuantizeIdle
  /\ RangeIdle
  /\ LayoutIdle
  /\ Constructed(<<>>, 1)
  /\ AppIdle

NextSchedule ==
  \/ ScheduleCall
  \/ ScheduleStep
  \/ ScheduleReturn

SpecSchedule == InitSchedule /\ [][NextSchedule]_vars

\* ------------------------------------------------------------------------
\* Desktop application: MarkovMusicApp and its dialogs
\* ------------------------------------------------------------------------
\* Most instances of one instrument counted up in the selector dialog.
MaxInstances == 2

\* Most files picked in one file dialog.
MaxFiles == 1

\* The rows of the selector dialog that are counted up, in the order of
\* INSTRUMENT_RANGES; the counters of the other rows stay at 0.
DialogInstruments == << "Flute", "Violin I" >>

\* What load_midi_file returns for the files on disk, as the pairs
\* <<voice name, events>>, durations in fine ticks: a file of two voices, a
\* file of one voice, and a file without notes, for which it raises.
MidiLibrary ==
  [ f \in {"a.mid", "b.mid", "c.mid"} |->
      CASE f = "a.mid" ->
             << << "Piano", << << <<"C", 4>>, 24, "mf", "normal", 64 >>,
                               << <<"D", 4>>, 12, "f", "normal", 80 >> >> >>,
                << "Flute", << << <<"G", 5>>, 8, "mf", "normal", 64 >> >> >> >>
        [] f = "b.mid" ->
             << << "Piano", << << <<"E", 4>>, 24, "mf", "normal", 64 >>,
                               << R, 24, "mf", "normal", 64 >> >> >> >>
        [] f = "c.mid" -> <<>> ]

\* What askopenfilenames returns when the dialog is confirmed.
FileSelections ==
  { fs \in UNION { [1..n -> DOMAIN MidiLibrary] : n \in 1..MaxFiles } :
      \A i, j \in 1..Len(fs) : i # j => fs[i] # fs[j] }

RECURSIVE MergeVoices(_, _, _)
\* The inner loop of load_available_voices over the voices of one file.
MergeVoices(dict, voices, j) ==
  IF j > Len(voices) THEN dict
  ELSE LET voice_name == voices[j][1]
           voice_data == voices[j][2]
       IN MergeVoices(IF voice_name \in DOMAIN dict
                        THEN [dict EXCEPT ![voice_name] = @ \o voice_data]
                        ELSE dict @@ (voice_name :> voice_data),
                      voices, j + 1)

RECURSIVE load_available_voices(_, _, _)
\* The loop over self.midi_files: an exception of load_midi_file ends it
\* with the voices loaded so far.
load_available_voices(dict, files, i) ==
  IF i > Len(files) THEN dict
  ELSE IF MidiLibrary[files[i]] = <<>> THEN dict
  ELSE load_available_voices(MergeVoices(dict, MidiLibrary[files[i]], 1),
                             files, i + 1)

\* select_midi_files: the file dialog is confirmed with file_paths or
\* cancelled.
SelectMidiFiles ==
  /\ \E file_paths \in FileSelections \cup {<<>>} :
       IF file_paths # <<>>
         THEN /\ midi_files' = file_paths
              /\ available_voices' = load_available_voices(<<>>, file_paths, 1)
         ELSE UNCHANGED << midi_files, available_voices >>
  /\ UNCHANGED << selected_instruments, voice_mappings, use_midi_var,
                  training_data_dict, thread_pc, score_instruments,
                  layoutVars, markovVars, pureVars >>

\* The check button bound to use_midi_var.
ToggleUseMidi ==
  /\ use_midi_var' = ~use_midi_var
  /\ UNCHANGED << midi_files, available_voices, selected_instruments,
                  voice_mappings, training_data_dict, thread_pc,
                  score_instruments, layoutVars, markovVars, pureVars >>

RECURSIVE SelectedFrom(_, _, _)
\* The loop of confirm_selection over count_vars: one instance keeps the
\* bare name, several become 'name #1' .. 'name #count'.
SelectedFrom(names, counts, i) ==
  IF i > Len(names) THEN <<>>
  ELSE LET instr == names[i]
           count == counts[instr]
       IN (IF count = 0 THEN <<>>
           ELSE IF count = 1 THEN << <<instr, 0>> >>
           ELSE [ k \in 1..count |-> <<instr, k>> ])
          \o SelectedFrom(names, counts, i + 1)

\* select_instruments: InstrumentSelectorDialog closed by OK
\* (confirm_selection, which refuses an empty selection) or by Cancel.
SelectInstruments ==
  /\ \/ \E counts \in [ { DialogInstruments[i] : i \in 1..Len(DialogInstruments) }
                          -> 0..MaxInstances ] :
          LET selected == SelectedFrom(DialogInstruments, counts, 1)
          IN  IF selected = <<>>
                THEN UNCHANGED << selected_instruments, voice_mappings >>
                ELSE /\ selected_instruments' = selected
                     /\ voice_mappings' = <<>>
     \/ UNCHANGED << selected_instruments, voice_mappings >>
  /\ UNCHANGED << midi_files, available_voices, use_midi_var,
                  training_data_dict, thread_pc, score_instruments,
                  layoutVars, markovVars, pureVars >>

\* map_instrument_voices: the button is enabled once files were selected;
\* VoiceMappingDialog offers every selected instrument the available voices
\* or none, and confirm_mappings refuses a mapping with a voice missing.
MapInstrumentVoices ==
  /\ midi_files # <<>>
  /\ IF selected_instruments = <<>> \/ DOMAIN available_voices = {}
       THEN UNCHANGED voice_mappings
       ELSE \/ \E voice_vars \in [ 1..Len(selected_instruments)
                                    -> DOMAIN available_voices \cup {""} ] :
                 IF \E i \in DOMAIN voice_vars : voice_vars[i] = ""
                   THEN UNCHANGED voice_mappings
                   ELSE voice_mappings' =
                          [ i \in 1..Len(selected_instruments) |->
                              << selected_instruments[i], voice_vars[i] >> ]
            \/ UNCHANGED voice_mappings
  /\ UNCHANGED << midi_files, available_voices, selected_instruments,
                  use_midi_var, training_data_dict, thread_pc,
                  score_instruments, layoutVars, markovVars, pureVars >>

\* self.quantization_var as constructed: 'Semicolcheia', 0.25.
DefaultQuantization == FineTicks \div 4

\* The three tests of generate_music all let the call through.
ChecksPass ==
  /\ ~(use_midi_var /\ midi_files = <<>>)
  /\ selected_instruments # <<>>
  /\ ~(use_midi_var /\ voice_mappings = <<>>)

\* generate_music: a warning and a return, or the thread is started.  One
\* thread runs at a time.
GenerateMusic ==
  /\ thread_pc # "started"
  /\ thread_pc' = IF ChecksPass THEN "started" ELSE thread_pc
  /\ UNCHANGED << midi_files, available_voices, selected_instruments,
                  voice_mappings, use_midi_var, training_data_dict,
                  score_instruments, layoutVars, markovVars, pureVars >>

\* create_predefined_training_data(), durations in fine ticks.
create_predefined_training_data ==
  LET n(step, d) == << <<step, 5>>, d * FineTicks, 64, "normal", 64 >>
  IN  << n("C", 1), n("C", 1), n("G", 1), n("G", 1), n("A", 1), n("A", 1),
         n("G", 2), n("F", 1), n("F", 1), n("E", 1), n("E", 1), n("D", 1),
         n("D", 1), n("C", 2) >>

\* The training data the thread prepares: the mapped voices that are
\* available, or the predefined data for every selected instrument.
PrepareTrainingData ==
  IF use_midi_var
    THEN LET mapped == SelectSeq(voice_mappings,
                                 LAMBDA m : m[2] \in DOMAIN available_voices)
         IN  [ i \in 1..Len(mapped) |->
                 << mapped[i][1], available_voices[mapped[i][2]] >> ]
    ELSE [ i \in 1..Len(selected_instruments) |->
             << selected_instruments[i], create_predefined_training_data >> ]

RECURSIVE GroupInstruments(_, _, _)
\* grouped_instruments: the labels grouped by the name before ' #', groups
\* and members in the order of the dict.
GroupInstruments(groups, dict, i) ==
  IF i > Len(dict) THEN groups
  ELSE LET instrument == dict[i][1]
           found == { g \in 1..Len(groups) : groups[g][1][1] = instrument[1] }
       IN  GroupInstruments(
             IF found = {}
               THEN Append(groups, << instrument >>)
               ELSE [ groups EXCEPT ![CHOOSE g \in found : TRUE] =
                        Append(@, instrument) ],
             dict, i + 1)

\* dict[key] of a dict kept as pairs.
Lookup(dict, key) ==
  dict[CHOOSE i \in 1..Len(dict) : dict[i][1] = key][2]

\* quantized_data of the thread.
QuantizedData(training_data_of, quantization) ==
  [ i \in 1..Len(training_data_of) |->
      << training_data_of[i][1],
         quantize_duration(training_data_of[i][2], quantization),
         training_data_of[i][3], training_data_of[i][4],
         training_data_of[i][5] >> ]

\* generate_all_sequences raises on the model trained with these notes:
\* _generate_sequence is handed an empty axis table.
GenerationRaises(notes) ==
  \E pos \in {1, 2, 5} :
    DOMAIN CalculateSeparateMatrix(<<>>, notes, pos) = {}

RECURSIVE InstrumentsOf(_, _)
\* The instruments list: the members of every group, group after group.
InstrumentsOf(groups, g) ==
  IF g > Len(groups) THEN <<>> ELSE groups[g] \o InstrumentsOf(groups, g + 1)

\* _generate_music_thread: the training data are prepared, one model per
\* group is trained on the data of the first member and generates for all
\* members; an exception ends the thread without a score.
GenerateMusicThread ==
  /\ thread_pc = "started"
  /\ training_data_dict' = PrepareTrainingData
  /\ LET quantization == DefaultQuantization
         grouped_instruments == GroupInstruments(<<>>, training_data_dict', 1)
         raised ==
           \/ training_data_dict' = <<>>
           \/ \E g \in 1..Len(grouped_instruments) :
                GenerationRaises(
                  QuantizedData(Lookup(training_data_dict',
                                       grouped_instruments[g][1]),
                                quantization))
     IN  IF raised
           THEN /\ thread_pc' = "error"
                /\ score_instruments' = <<>>
           ELSE /\ thread_pc' = "score"
                /\ score_instruments' = InstrumentsOf(grouped_instruments, 1)
  /\ UNCHANGED << midi_files, available_voices, selected_instruments,
                  voice_mappings, use_midi_var, layoutVars, markovVars,
                  pureVars >>

InitApp ==
  /\ AppIdle
  /\ LayoutIdle
  /\ Constructed(<<>>, 1)
  /\ QuantizeIdle
  /\ RangeIdle
  /\ ScheduleIdle

NextApp ==
  \/ SelectMidiFiles
  \/ ToggleUseMidi
  \/ SelectInstruments
  \/ MapInstrumentVoices
  \/ GenerateMusic
  \/ GenerateMusicThread

SpecApp == InitApp /\ [][NextApp]_vars

\* ------------------------------------------------------------------------
\* Observations on the assembled measures
\* ------------------------------------------------------------------------
\* The measures of voice v so far: the finished part once it is in the
\* score, the appended measures of the part under construction otherwise.
PartOf(v) == IF v <= Len(score) THEN score[v] ELSE part

\* The voices that have a part or are being assembled.
Voices == { v \in 1..Len(instruments) : v <= Len(score) \/ v = voice }

\* Notes and rests of a measure that come from input events.
IsFragment(x) == x.kind \in {"Note", "Rest"} /\ x.ev # 0

IsPad(x) == x.kind = "Rest" /\ x.ev = 0

\* Total quarterLength of the notes and rests of a measure that satisfy keep.
MeasureTotal(m, keep(_)) ==
  SumSeq([ i \in 1..Len(m.items) |->
             IF m.items[i].kind \in {"Note", "Rest"} /\ keep(m.items[i])
               THEN m.items[i].quarterLength ELSE 0 ])

PartTotal(p, keep(_)) ==
  SumSeq([ i \in 1..Len(p) |-> MeasureTotal(p[i], keep) ])

Anything(x) == TRUE

\* Sum of the durations of the input events of a melody.
MelodyTotal(melody) == SumSeq([ i \in 1..Len(melody) |-> melody[i][2] ])

\* The entry of the schedule in force for measure number n: the entry with
\* the greatest measure number not above n, the base signature without one.
ScheduledTimeSig(n) ==
  LET earlier == { k \in DOMAIN time_sig_changes : k <= n }
  IN IF earlier = {} THEN time_signature
     ELSE time_sig_changes[CHOOSE k \in earlier : \A j \in earlier : j <= k]

\* ------------------------------------------------------------------------
\* Claims on the layout assembler
\* ------------------------------------------------------------------------
\* C1: the running measure_duration of the open measure never exceeds the
\* capacity of the active meter, also right after a carried tie remainder
\* was placed at the start of a new measure.
C1_DurationWithinCapacity ==
  voice <= Len(instruments) => measure_duration <= measure_length

\* The pad rests of a part.
PadPositions(p) ==
  { <<i, j>> \in (1..Len(p)) \X (1..MaxEvents + 2) :
      j <= Len(p[i].items) /\ IsPad(p[i].items[j]) }

\* C2: no beats are dropped: in every finished part the placed notes and
\* rests, the trailing pad rest apart, add up to the durations of the input
\* events; there is at most one pad rest and it is in the last measure.
C2_NoBeatsDropped ==
  \A v \in 1..Len(score) :
    /\ PartTotal(score[v], IsFragment) = MelodyTotal(melodies[v])
    /\ Cardinality(PadPositions(score[v])) <= 1
    /\ \A pos \in PadPositions(score[v]) : pos[1] = Len(score[v])

\* C3: every emitted measure holds notes and rests (the pad included) whose
\* lengths add up exactly to its capacity, and the open measure is always
\* below capacity: a measure is closed exactly when it is full.
C3_MeasuresExactlyFull ==
  /\ \A v \in Voices : \A i \in 1..Len(PartOf(v)) :
       MeasureTotal(PartOf(v)[i], Anything) = PartOf(v)[i].length
  /\ voice <= Len(instruments) => measure_duration < measure_length

\* C4: measure number m is assembled under the schedule entry with the
\* greatest measure number not above m.
C4_MeterFollowsSchedule ==
  \A v \in Voices : \A i \in 1..Len(PartOf(v)) :
    LET m == PartOf(v)[i]
    IN /\ m.ts = ScheduledTimeSig(m.number)
       /\ m.length = get_time_signature_value(ScheduledTimeSig(m.number))

\* C5: two voices assembled under the same schedule use the same meter for
\* every measure number both of them emit.
C5_VoicesShareMeter ==
  \A v1 \in 1..Len(score) : \A v2 \in 1..Len(score) :
    \A i \in 1..Len(score[v1]) :
      i <= Len(score[v2]) => score[v1][i].ts = score[v2][i].ts

\* The tie-start notes of voice v, as <<measure index, item index>>.
TieStarts(v) ==
  { <<i, j>> \in (1..Len(PartOf(v))) \X (1..MaxEvents + 2) :
      j <= Len(PartOf(v)[i].items) /\ PartOf(v)[i].items[j].tie = "start" }

\* The measure after measure i of voice v: the open measure after the last
\* appended one.
Following(v, i) ==
  IF i < Len(PartOf(v)) THEN PartOf(v)[i + 1] ELSE current_measure

\* C6: for every split pitched event the tie-start length plus the tie-stop
\* length is the event's duration, and the tie-stop note has the pitch and
\* the velocity of the tie-start note.
C6_TieKeepsEvent ==
  \A v \in Voices : \A pos \in TieStarts(v) :
    LET x == PartOf(v)[pos[1]].items[pos[2]]
        next == Following(v, pos[1])
    IN /\ pos[1] < Len(PartOf(v)) \/ v = voice
       /\ Len(next.items) >= 1
       /\ LET y == next.items[1]
          IN /\ y.kind = "Note"
             /\ y.tie = "stop"
             /\ y.ev = x.ev
             /\ x.quarterLength + y.quarterLength = melodies[v][x.ev][2]
             /\ y.pitch = x.pitch
             /\ y.velocity = x.velocity

\* A finished part holds a tied pair.
C6_Witness ==
  \E v \in 1..Len(score) : TieStarts(v) # {}

\* C7: within a voice the active meter and the capacity change only while
\* the open measure is empty.
C7_MeterChangesOnEmptyMeasure ==
  [][ (voice' = voice /\ (current_ts' # current_ts \/ measure_length' # measure_length))
        => (measure_duration = 0 /\ current_measure.items = <<>>) ]_vars

\* The meter was changed away from the base signature and the measure it
\* was changed for holds an element.
C7_Witness ==
  /\ voice <= Len(instruments)
  /\ current_ts # time_signature
  /\ measure_duration > 0
  /\ current_measure.sigs # <<>>

\* ------------------------------------------------------------------------
\* Claims on the generator and the trainer
\* ------------------------------------------------------------------------
\* The axis sequences _generate_sequence has returned to the running or
\* last call of generate_all_sequences.
PitchReturned ==
  gen_pc # "idle" /\ (gen_index > 1 \/ axis \in {"duration", "velocity", "zip"})

DurationReturned ==
  gen_pc # "idle" /\ (gen_index > 1 \/ axis \in {"velocity", "zip"})

VelocityReturned ==
  gen_pc # "idle" /\ (gen_index > 1 \/ axis = "zip")

AllKeys(seq, matrix) == \A i \in 1..Len(seq) : seq[i] \in DOMAIN matrix

\* C8 as stated: every symbol of a returned sequence is a key of its table.
C8_SymbolsAreKeys ==
  /\ PitchReturned => AllKeys(pitch_sequence, pitch_matrix)
  /\ DurationReturned => AllKeys(duration_sequence, duration_matrix)
  /\ VelocityReturned => AllKeys(velocity_sequence, velocity_matrix)

\* The first symbol is a key and every symbol is a key or a successor
\* recorded in a row.
KeysOrSuccessors(seq, matrix) ==
  /\ seq # <<>> => seq[1] \in DOMAIN matrix
  /\ \A i \in 1..Len(seq) :
       seq[i] \in DOMAIN matrix \cup SeedStatesSuccessors(matrix)

\* C8 amended: the first symbol of a returned sequence is a key of its
\* table, and every symbol is a key or a successor recorded in one of the
\* rows of the table.
C8_SymbolsAreKeysOrSuccessors ==
  /\ PitchReturned => KeysOrSuccessors(pitch_sequence, pitch_matrix)
  /\ DurationReturned => KeysOrSuccessors(duration_sequence, duration_matrix)
  /\ VelocityReturned => KeysOrSuccessors(velocity_sequence, velocity_matrix)

\* A returned pitch sequence ends in a symbol without an outgoing row.
C8_Witness ==
  /\ gen_pc = "returned"
  /\ Len(pitch_sequence) >= 2
  /\ pitch_sequence[Len(pitch_sequence)] \notin DOMAIN pitch_matrix

\* C9: a sequence returned by _generate_sequence has exactly `length`
\* symbols, for every length from 0 on.
C9_ReturnsLengthSymbols ==
  /\ PitchReturned => Len(pitch_sequence) = gen_length
  /\ DurationReturned => Len(duration_sequence) = gen_length
  /\ VelocityReturned => Len(velocity_sequence) = gen_length

RECURSIVE ProductOfTotals(_, _)
\* The product of the totals of the entries of a row under keys.
ProductOfTotals(row, keys) ==
  IF keys = {} THEN 1
  ELSE LET k == CHOOSE x \in keys : TRUE
       IN row[k][2] * ProductOfTotals(row, keys \ {k})

\* The probabilities count / total of a row add up to 1.
SumsToOne(row) ==
  SumOver([ k \in DOMAIN row |->
              row[k][1] * ProductOfTotals(row, DOMAIN row \ {k}) ],
          DOMAIN row)
    = ProductOfTotals(row, DOMAIN row)

\* Every row of a table has a total count of at least 1, no entry was
\* divided by zero, and the probabilities of the row add up to 1.
RowsNormalized(matrix) ==
  \A state \in DOMAIN matrix :
    /\ DOMAIN matrix[state] # {}
    /\ \A next_state \in DOMAIN matrix[state] :
         /\ matrix[state][next_state][2] >= 1
         /\ matrix[state][next_state][1] >= 1
    /\ SumsToOne(matrix[state])

\* C10: after train every row of the joint table and of the three axis
\* tables has a total count of at least 1 and probabilities that add up
\* to 1; no division by zero happens.
C10_RowsNormalized ==
  train_status = "trained" =>
    /\ RowsNormalized(transition_matrix)
    /\ RowsNormalized(pitch_matrix)
    /\ RowsNormalized(duration_matrix)
    /\ RowsNormalized(velocity_matrix)

\* A trained model with a joint row and a pitch row of two successors.
C10_Witness ==
  /\ train_status = "trained"
  /\ DOMAIN transition_matrix # {}
  /\ \E state \in DOMAIN pitch_matrix :
       Cardinality(DOMAIN pitch_matrix[state]) >= 2

\* ------------------------------------------------------------------------
\* Quantizer properties
\* ------------------------------------------------------------------------
\* The second call returned what the first call returned.
QuantizedTwiceSame == Len(q_results) = 2 => q_results[2] = q_results[1]

\* C11 as stated: quantize_duration is idempotent for every duration and
\* every grid g > 0.
C11_IdempotentEveryGrid == QuantizedTwiceSame

\* C11: quantize_duration is idempotent for every duration on each of the
\* four grids the front ends offer (0.25, 0.5, 1.0, 2.0).
C11_IdempotentOfferedGrids ==
  q_grid \in QUANTIZATION_OPTIONS => QuantizedTwiceSame

\* Both calls were made on an offered grid, and the first one moved the
\* duration.
C11_Witness ==
  /\ q_grid \in QUANTIZATION_OPTIONS
  /\ Len(q_results) = 2
  /\ q_results[1] # q_duration

\* Every value returned lies between low and 4.0 quarter notes.
ReturnsWithin(low) ==
  \A i \in 1..Len(q_results) :
    low <= q_results[i] /\ q_results[i] <= 4 * FineTicks

\* C12 as stated: the output of quantize_duration lies in [0.25, 4.0] for
\* every duration and every grid g > 0.
C12_RangeEveryGrid == ReturnsWithin(FineTicks \div 4)

\* C12: the output of quantize_duration lies in [0.25, 4.0] on each of the
\* four offered grids, and in [0.125, 4.0] on every grid g > 0.
C12_RangeOfferedGrids ==
  /\ q_grid \in QUANTIZATION_OPTIONS => ReturnsWithin(FineTicks \div 4)
  /\ ReturnsWithin(FineTicks \div 8)

\* A duration above 4.0 was quantized on an offered grid.
C12_Witness ==
  /\ q_grid \in QUANTIZATION_OPTIONS
  /\ q_duration > 4 * FineTicks
  /\ q_results # <<>>

\* ------------------------------------------------------------------------
\* Range normalizer properties
\* ------------------------------------------------------------------------
\* The [low, high] bounds a label stands for: those of the name before
\* ' #', those of Violin I when the table does not hold that name.
BoundsOf(label) ==
  IF label[1] \in DOMAIN INSTRUMENT_RANGES
    THEN INSTRUMENT_RANGES[label[1]]
    ELSE INSTRUMENT_RANGES["Violin I"]

\* C13: adjust_pitch_to_range returns a rest unchanged, and for a pitched
\* input and every label (a table name, a doubled label, an unrecognized
\* name) a pitch whose height lies within the instrument's [low, high].
C13_PitchWithinRange ==
  r_results # <<>> =>
    IF r_pitch = R
      THEN r_results[1] = R
      ELSE /\ r_results[1] # R
           /\ Midi(BoundsOf(r_instrument)[1]) <= Midi(r_results[1])
           /\ Midi(r_results[1]) <= Midi(BoundsOf(r_instrument)[2])

\* A pitch more than an octave below the range of a doubled instrument was
\* adjusted.
C13_Witness ==
  /\ r_results # <<>>
  /\ r_pitch # R
  /\ r_instrument[2] > 0
  /\ Midi(r_pitch) + 12 < Midi(BoundsOf(r_instrument)[1])

\* ------------------------------------------------------------------------
\* Trainer and generator: failures and frame
\* ------------------------------------------------------------------------
\* A call of train has just ended.
TrainEnded == train_status' # train_status \/ train_notes' # train_notes

\* C14: train on an empty corpus fails with an error before any table is
\* touched: the initial distribution, the joint table and the three axis
\* tables are as they were before the call.
C14_EmptyTrainFails ==
  [][(TrainEnded /\ train_notes' = <<>>) =>
       /\ train_status' = "ValueError"
       /\ UNCHANGED << initial_probabilities, transition_matrix, pitch_matrix,
                       duration_matrix, velocity_matrix >>]_vars

\* train failed on a model whose tables an earlier call had filled.
C14_Witness ==
  /\ train_status = "ValueError"
  /\ train_notes = <<>>
  /\ DOMAIN transition_matrix # {}
  /\ DOMAIN pitch_matrix # {}

\* An axis table is empty.
SomeAxisEmpty ==
  \E a \in {"pitch", "duration", "velocity"} : DOMAIN AxisMatrix(a) = {}

\* Nothing was sampled or built by the running call.
NothingGenerated ==
  /\ seq_pc = "idle"
  /\ sequence = <<>>
  /\ melodies_dict = <<>>
  /\ sequences_data = <<>>

\* C15: generation from an empty axis table fails with an error instead of
\* sampling: the step that ends the call with the error finds an empty
\* table, has sampled no symbol and built no melody, and leaves the stored
\* generated_sequences as they were; no call returns while a table is empty.
C15_EmptyTableRaises ==
  [][/\ (gen_pc # "raised" /\ gen_pc' = "raised") =>
          /\ SomeAxisEmpty
          /\ NothingGenerated'
          /\ UNCHANGED generated_sequences
     /\ SomeAxisEmpty' => (gen_pc' # "returned" /\ NothingGenerated')]_vars

\* A call for at least one symbol failed on a model that train had
\* accepted a one-event corpus for.
C15_Witness ==
  /\ gen_pc = "raised"
  /\ gen_length > 0
  /\ train_status = "trained"

\* ------------------------------------------------------------------------
\* Corpus of identical events
\* ------------------------------------------------------------------------
\* The model was trained on a corpus of at least least events, all equal.
TrainedOnIdentical(least) ==
  /\ train_status = "trained"
  /\ Len(training_data) >= least
  /\ \A i \in 1..Len(training_data) : training_data[i] = training_data[1]

\* The table has the one state v, whose row maps to v with probability 1.
OneState(matrix, v) ==
  /\ DOMAIN matrix = {v}
  /\ DOMAIN matrix[v] = {v}
  /\ matrix[v][v][2] > 0
  /\ matrix[v][v][1] = matrix[v][v][2]

\* seq is n copies of v.
AllCopies(seq, v, n) == Len(seq) = n /\ \A i \in 1..Len(seq) : seq[i] = v

\* After training on identical events each axis table has one state, and
\* a returned axis sequence is copies(gen_length) copies of its value.
IdenticalCorpus(least, copies(_)) ==
  TrainedOnIdentical(least) =>
    LET event == training_data[1]
    IN /\ OneState(pitch_matrix, event[1])
       /\ OneState(duration_matrix, event[2])
       /\ OneState(velocity_matrix, event[5])
       /\ PitchReturned =>
            AllCopies(pitch_sequence, event[1], copies(gen_length))
       /\ DurationReturned =>
            AllCopies(duration_sequence, event[2], copies(gen_length))
       /\ VelocityReturned =>
            AllCopies(velocity_sequence, event[5], copies(gen_length))

Asked(n) == n

AtLeastOne(n) == IF n >= 1 THEN n ELSE 1

FirstMeasureIsBase ==
  /\ \E i \in 1..Len(time_sig_sequence) : time_sig_sequence[i][1] = 1
  /\ \A i \in 1..Len(time_sig_sequence) :
       time_sig_sequence[i][1] = 1 => time_sig_sequence[i][2] = base_time_sig

C18_NoRepeatedMeter ==
  random_changes =>
    \A i \in 2..Len(time_sig_sequence) :
      /\ time_sig_sequence[i][2] # time_sig_sequence[i - 1][2]
      /\ time_sig_sequence[i][2] \in available_time_sigs

\* A schedule with two changes was returned.
C18_Witness ==
  /\ sched_pc = "returned"
  /\ random_changes
  /\ Len(time_sig_sequence) >= 3

\* ------------------------------------------------------------------------
\* End of a voice
\* ------------------------------------------------------------------------
\* The last measure of a finished part holds an input event and, when the
\* events leave room, ends with the one pad rest of the unused length.
LastMeasurePadded(p) ==
  LET last == p[Len(p)]
      placed == MeasureTotal(last, IsFragment)
      pads == { j \in 1..Len(last.items) : IsPad(last.items[j]) }
  IN /\ \E j \in 1..Len(last.items) : IsFragment(last.items[j])
     /\ IF placed < last.length
          THEN /\ pads = {Len(last.items)}
               /\ last.items[Len(last.items)].quarterLength = last.length - placed
          ELSE pads = {}

\* C19: at the end of a voice an open measure that holds events and is
\* under capacity gets exactly one trailing rest of the unused length and is
\* emitted, and an empty open measure is discarded: the last measure of a
\* finished part is never empty and no other measure holds a pad rest.
C19_PadOnlyLastMeasure ==
  \A v \in 1..Len(score) :
    /\ Len(score[v]) > 0 => LastMeasurePadded(score[v])
    /\ \A pos \in PadPositions(score[v]) : pos[1] = Len(score[v])
    /\ melodies[v] = <<>> => score[v] = <<>>

\* A voice of several measures ended on a padded measure.
C19_Witness ==
  /\ Len(score) = 1
  /\ Len(score[1]) >= 2
  /\ PadPositions(score[1]) # {}

\* ------------------------------------------------------------------------
\* Generation and the fields of the model
\* ------------------------------------------------------------------------
\* The step belongs to a call of generate_all_sequences.
GenerationStep == gen_pc = "running" \/ gen_pc' = "running"

MeasuresOf(v) ==
  IF v <= Len(score) THEN score[v] ELSE Append(part, current_measure)

\* C21: an event of non-positive duration that reaches the assembler makes
\* assembly fail: no measure holds a fragment of such an event.
C21_NonPositiveRejected ==
  \A v \in Voices : \A i \in 1..Len(MeasuresOf(v)) :
    \A j \in 1..Len(MeasuresOf(v)[i].items) :
      LET x == MeasuresOf(v)[i].items[j]
      IN IsFragment(x) => melodies[v][x.ev][2] > 0

\* ------------------------------------------------------------------------
\* Split rests
\* ------------------------------------------------------------------------
\* The fragments of measure m that come from input events, in order.
FragmentsOf(m) == SelectSeq(m.items, IsFragment)

\* Measure i of voice v holds a fragment of event ev.
HoldsEvent(v, i, ev) ==
  \E j \in 1..Len(MeasuresOf(v)[i].items) :
    IsFragment(MeasuresOf(v)[i].items[j]) /\ MeasuresOf(v)[i].items[j].ev = ev

\* C22: a rest that overflows the open measure is split into two untied
\* rest fragments: the first closes its measure and the second, of the
\* rest of the duration, is placed first in the next measure.
C22_RestSplitInTwo ==
  \A v \in Voices : \A i \in 1..Len(MeasuresOf(v)) :
    \A j \in 1..Len(MeasuresOf(v)[i].items) :
      LET x == MeasuresOf(v)[i].items[j]
          duration == melodies[v][x.ev][2]
      IN (/\ IsFragment(x)
          /\ x.kind = "Rest"
          /\ x.quarterLength < duration
          /\ (i = 1 \/ ~HoldsEvent(v, i - 1, x.ev))) =>
           /\ x.tie = "None"
           /\ j = Len(MeasuresOf(v)[i].items)
           /\ i < Len(MeasuresOf(v))
           /\ FragmentsOf(MeasuresOf(v)[i + 1]) # <<>>
           /\ LET y == FragmentsOf(MeasuresOf(v)[i + 1])[1]
              IN /\ y.kind = "Rest"
                 /\ y.ev = x.ev
                 /\ y.tie = "None"
                 /\ y.quarterLength = duration - x.quarterLength

\* ------------------------------------------------------------------------
\* Step rule of _generate_sequence
\* ------------------------------------------------------------------------
\* seq starts with a key of matrix; a symbol after one that has a row is a
\* successor of positive weight in that row, a symbol after one without a
\* row is a key.
StepRule(seq, matrix) ==
  /\ seq # <<>> => seq[1] \in DOMAIN matrix
  /\ \A i \in 2..Len(seq) :
       IF seq[i - 1] \in DOMAIN matrix
         THEN /\ seq[i] \in DOMAIN matrix[seq[i - 1]]
              /\ matrix[seq[i - 1]][seq[i]][1] > 0
         ELSE seq[i] \in DOMAIN matrix

\* C23: the first symbol of a generated axis sequence is a key of its
\* table; a later symbol is in the support of the row of the symbol before
\* it when that symbol has a row, and is a key of the table when it has none.
C23_StepRule ==
  /\ PitchReturned => StepRule(pitch_sequence, pitch_matrix)
  /\ DurationReturned => StepRule(duration_sequence, duration_matrix)
  /\ VelocityReturned => StepRule(velocity_sequence, velocity_matrix)
  /\ seq_pc = "loop" => StepRule(sequence, AxisMatrix(axis))

\* A returned pitch sequence whose second symbol has no row, followed by a
\* third symbol.
C23_Witness ==
  /\ gen_pc = "returned"
  /\ Len(pitch_sequence) = 3
  /\ pitch_sequence[2] \notin DOMAIN pitch_matrix
  /\ Cardinality(DOMAIN pitch_matrix[pitch_sequence[1]]) >= 2

\* ------------------------------------------------------------------------
\* Dynamic markers
\* ------------------------------------------------------------------------
RECURSIVE Flatten(_)
\* The items of a sequence of measures, in order.
Flatten(ms) ==
  IF ms = <<>> THEN <<>> ELSE Flatten(SubSeq(ms, 1, Len(ms) - 1)) \o ms[Len(ms)].items

\* The Dynamic items of flat before position k.
MarkersBefore(flat, k) == { m \in 1..(k - 1) : flat[m].kind = "Dynamic" }

\* The dynamic of the most recent marker before position k, "None" when
\* there is none.
DynamicBefore(flat, k) ==
  IF MarkersBefore(flat, k) = {} THEN "None"
  ELSE flat[CHOOSE m \in MarkersBefore(flat, k) :
              \A o \in MarkersBefore(flat, k) : o <= m].value

\* The first fragment of a pitched event.
IsPitchedStart(x) == x.kind = "Note" /\ x.tie # "stop"

\* C24: in each voice a dynamic marker stands immediately before a pitched
\* event exactly when the event's dynamic differs from the dynamic of the
\* most recent marker (the first pitched event always has one); rests and
\* tie-stop remainders have no marker and leave the remembered dynamic, so
\* two consecutive markers never carry the same dynamic.
C24_MarkerOnDynamicChange ==
  \A v \in Voices :
    LET flat == Flatten(MeasuresOf(v))
    IN /\ \A k \in 1..Len(flat) :
            /\ flat[k].kind = "Dynamic" =>
                 /\ k < Len(flat)
                 /\ IsPitchedStart(flat[k + 1])
                 /\ flat[k + 1].ev = flat[k].ev
                 /\ flat[k].value = melodies[v][flat[k].ev][3]
                 /\ flat[k].value # DynamicBefore(flat, k)
            /\ IsPitchedStart(flat[k]) =>
                 LET before == IF k > 1 /\ flat[k - 1].kind = "Dynamic"
                                 THEN k - 1 ELSE k
                 IN (before < k) <=>
                      (melodies[v][flat[k].ev][3] # DynamicBefore(flat, before))
       /\ \A i \in 1..Len(MeasuresOf(v)) :
            LET items == MeasuresOf(v)[i].items
            IN items # <<>> => items[Len(items)].kind # "Dynamic"
       /\ v = voice => current_dynamic = DynamicBefore(flat, Len(flat) + 1)

\* A voice with two markers, and with a rest and a pitched event after the
\* second marker that got none.
C24_Witness ==
  LET flat == Flatten(MeasuresOf(1))
  IN /\ score = <<>>
     /\ Cardinality(MarkersBefore(flat, Len(flat) + 1)) = 2
     /\ \E k \in 2..Len(flat) :
          /\ flat[k - 1].kind = "Rest"
          /\ IsPitchedStart(flat[k])

\* ------------------------------------------------------------------------
\* Melodies returned by generate_all_sequences
\* ------------------------------------------------------------------------
\* The eight dynamics, one per bucket of 16 intensities, the last bucket
\* running from 112 up.
BucketDynamic(velocity) ==
  << "ppp", "pp", "p", "mp", "mf", "f", "ff", "fff" >>
    [IF velocity \div 16 >= 7 THEN 8 ELSE (velocity \div 16) + 1]

\* The melody of an instrument has n events, the i-th built from the i-th
\* symbols of the three raw sequences stored for the instrument.
ZippedMelody(instrument, n) ==
  /\ instrument \in DOMAIN melodies_dict
  /\ instrument \in DOMAIN generated_sequences
  /\ LET melody == melodies_dict[instrument]
         raw == generated_sequences[instrument]
     IN /\ Len(melody) = n
        /\ \A i \in 1..Len(melody) :
             /\ i <= Len(raw.pitch) /\ melody[i][1] = raw.pitch[i]
             /\ i <= Len(raw.duration) /\ melody[i][2] = raw.duration[i]
             /\ i <= Len(raw.velocity) /\ melody[i][5] = raw.velocity[i]
             /\ melody[i][4] = "normal"
             /\ melody[i][3] = BucketDynamic(melody[i][5])

\* C25: generate_all_sequences returns for each requested instrument
\* exactly `length` events, the i-th taking pitch, duration and intensity
\* from the i-th symbols of the three axis sequences, with articulation
\* 'normal' and the dynamic of the 8-bucket mapping of its intensity, which
\* map_velocity_to_dynamic computes for every intensity 0..127.
C25_MelodyZipsAxes ==
  /\ gen_pc = "returned" =>
       /\ DOMAIN melodies_dict = { gen_instruments[k] : k \in 1..Len(gen_instruments) }
       /\ \A k \in 1..Len(gen_instruments) :
            ZippedMelody(gen_instruments[k], gen_length)
  /\ \A velocity \in 0..127 :
       map_velocity_to_dynamic(velocity) = BucketDynamic(velocity)

\* A returned melody of two events of different intensity.
C25_Witness ==
  /\ gen_pc = "returned"
  /\ gen_length = 2
  /\ \E k \in 1..Len(gen_instruments) :
       LET melody == melodies_dict[gen_instruments[k]]
       IN Len(melody) = 2 /\ melody[1][5] # melody[2][5]

\* ------------------------------------------------------------------------
\* Termination and order of the assembler
\* ------------------------------------------------------------------------
\* The positions of the fragments of event ev among the fragments fr.
PositionsOf(fr, ev) == { k \in 1..Len(fr) : fr[k].ev = ev }

\* Every event consumed so far has one fragment, or two that are a
\* tie-start and its tie-stop, and the fragments follow the order of the
\* events.
FragmentsInOrder(v) ==
  LET fr == SelectSeq(Flatten(MeasuresOf(v)), IsFragment)
  IN /\ \A k \in 2..Len(fr) : fr[k - 1].ev <= fr[k].ev
     /\ \A k \in 1..Len(fr) : fr[k].ev \in 1..Len(melodies[v])
     /\ \A ev \in 1..Len(melodies[v]) :
          LET at == PositionsOf(fr, ev)
          IN \/ /\ Cardinality(at) = 1
                /\ \A k \in at : fr[k].tie = "None"
             \/ /\ Cardinality(at) = 2
                /\ \E k \in at :
                     /\ k + 1 \in at
                     /\ fr[k].tie = "start"
                     /\ fr[k + 1].tie = "stop"
                     /\ fr[k].quarterLength < melodies[v][ev][2]

\* All voices are assembled: their parts are in the score.
SequenceExhausted == voice > Len(instruments) /\ Len(score) = Len(instruments)

\* C26: the assembler ends in SequenceExhausted, and every input event is
\* consumed once and in order: it yields one placed fragment, or two when
\* it is split, and the fragments of a voice follow the order of the events.
C26_TerminatesInOrder ==
  /\ [](\A v \in Voices : FragmentsInOrder(v))
  /\ <>[]SequenceExhausted

\* A finished voice of three events, one of them split.
C26_Witness ==
  /\ SequenceExhausted
  /\ Len(melodies[1]) = 3
  /\ \E ev \in 1..3 :
       Cardinality(PositionsOf(SelectSeq(Flatten(score[1]), IsFragment), ev)) = 2

\* ------------------------------------------------------------------------
\* Pairing of ties
\* ------------------------------------------------------------------------
\* C27: a tie-start fragment is the last fragment of its measure and
\* exactly fills it; its tie-stop is the first fragment of the next
\* measure; a tie-stop is placed whole, the two fragments making up the
\* duration of their event, even when it is longer than its measure.
C27_TiesPairAcrossBarline ==
  \A v \in Voices : \A i \in 1..Len(MeasuresOf(v)) :
    LET ms == MeasuresOf(v)
        items == ms[i].items
    IN \A j \in 1..Len(items) :
         /\ items[j].tie = "start" =>
              /\ j = Len(items)
              /\ MeasureTotal(ms[i], Anything) = ms[i].length
              /\ i < Len(ms)
              /\ FragmentsOf(ms[i + 1]) # <<>>
              /\ FragmentsOf(ms[i + 1])[1].tie = "stop"
              /\ FragmentsOf(ms[i + 1])[1].ev = items[j].ev
         /\ items[j].tie = "stop" =>
              /\ j = 1
              /\ i > 1
              /\ LET before == ms[i - 1].items[Len(ms[i - 1].items)]
                 IN /\ before.tie = "start"
                    /\ before.ev = items[j].ev
                    /\ before.quarterLength + items[j].quarterLength =
                         melodies[v][items[j].ev][2]
              /\ \A k \in 2..Len(items) : items[k].ev # items[j].ev

\* A tie-stop longer than the measure it was placed in.
C27_Witness ==
  \E i \in 1..Len(part) :
    /\ part[i].items # <<>>
    /\ part[i].items[1].tie = "stop"
    /\ part[i].items[1].quarterLength > part[i].length

\* ------------------------------------------------------------------------
\* Axis tables and the size of the corpus
\* ------------------------------------------------------------------------
AxesEmpty ==
  \A a \in {"pitch", "duration", "velocity"} : DOMAIN AxisMatrix(a) = {}

AxesNonEmpty ==
  \A a \in {"pitch", "duration", "velocity"} : DOMAIN AxisMatrix(a) # {}

\* train succeeded on a corpus of n events, for some n in sizes.
TrainedOnSize(sizes) ==
  train_status = "trained" /\ Len(training_data) \in sizes

\* C28: after train succeeds the three axis tables are all empty or all
\* non-empty, and non-empty exactly when the corpus has at least two
\* events; generation then never ends in the empty-table error for a corpus
\* of two or more events and never returns for a corpus of one event, for
\* every chain order.
C28_AxisTablesAgree ==
  [][/\ AxesEmpty' \/ AxesNonEmpty'
     /\ train_status' = "trained" =>
          (AxesNonEmpty' <=> Len(training_data') >= 2)
     /\ (gen_pc = "running" /\ gen_pc' = "raised") =>
          ~TrainedOnSize(2..MaxCorpus)
     /\ (gen_pc = "running" /\ gen_pc' = "returned") =>
          ~TrainedOnSize({1})
     /\ (gen_pc = "running" /\ TrainedOnSize({1})) => gen_pc' = "raised"]_vars

\* A model of order 3 trained on two events has an empty joint table and
\* returned melodies.
C28_Witness ==
  /\ train_status = "trained"
  /\ order = 3
  /\ Len(training_data) = 2
  /\ DOMAIN transition_matrix = {}
  /\ gen_pc = "returned"
  /\ gen_length = 2

\* ------------------------------------------------------------------------
\* Range normalizer: octaves and the second application
\* ------------------------------------------------------------------------
\* q is p moved by whole octaves: the same step name, heights a multiple of
\* twelve semitones apart.
SamePitchClass(p, q) ==
  IF p = R \/ q = R
    THEN p = q
    ELSE p[1] = q[1] /\ (Midi(q) - Midi(p)) % 12 = 0

\* C29: adjust_pitch_to_range returns for every pitch and every label, the
\* pitch it returns differs from its input by whole octaves only, and
\* applying it to its own result, as create_score does after generation,
\* returns that result again.
C29_OctavesAndIdempotent ==
  /\ Len(r_results) < 2 => ENABLED RangeCall
  /\ Len(r_results) >= 1 => SamePitchClass(r_pitch, r_results[1])
  /\ Len(r_results) = 2 => r_results[2] = r_results[1]

\* A pitch more than an octave above the range of an unrecognized, doubled
\* label went through both applications.
C29_Witness ==
  /\ Len(r_results) = 2
  /\ r_pitch # R
  /\ r_instrument[1] \notin DOMAIN INSTRUMENT_RANGES
  /\ r_instrument[2] > 0
  /\ Midi(r_pitch) > Midi(BoundsOf(r_instrument)[2]) + 12
  /\ r_results[1] # r_pitch

\* ------------------------------------------------------------------------
\* Desktop application: the voices of the score
\* ------------------------------------------------------------------------
\* The members of a list, or the keys of a dict kept as pairs.
Members(seq) == { seq[i] : i \in 1..Len(seq) }

Keys(dict) == { dict[i][1] : i \in 1..Len(dict) }

\* The thread, started by a generate_music whose checks still hold, has
\* built the score.
ScoreBuilt == thread_pc = "started" /\ thread_pc' = "score" /\ ChecksPass

\* C30: a generation run that passes the checks of generate_music builds
\* the score with exactly one voice per currently selected instrument: no
\* selected instrument is left out of the training data or of the melodies.
C30_OneVoicePerSelected ==
  [][ScoreBuilt =>
       /\ Keys(training_data_dict') = Members(selected_instruments)
       /\ Len(score_instruments') = Len(selected_instruments)
       /\ Members(score_instruments') = Members(selected_instruments)]_vars

=========================================================================
